---- MODULE Spec2Model ----
(***************************************************************************)
(* Tier / dual-entry reconciliation engine of the CPFR vendor contact      *)
(* manager (ReferenceApp/database_manager.py, vendor_processor.py).        *)
(*                                                                         *)
(* The vendor table is a sequence of rows (a SQL table has no uniqueness   *)
(* constraint, so the same (Vendor Number, FILE) key may occur twice).     *)
(* Only the relative order of rows that share a key is observable by the   *)
(* code (every read is by vendor, ORDER BY "FILE", or by key), so the      *)
(* table is kept in key order; rows with equal keys keep their order.      *)
(*                                                                         *)
(* Every engine method is an operator over a call context                  *)
(*   c = [t, n, fa, log, ret]                                              *)
(* t   the table, n the number of storage calls issued so far,             *)
(* fa  the index of the storage call that raises (0: none does),           *)
(* sa  the index of the storage call, a DML statement, right after which   *)
(*     another session of the shared table inserts the row srow (0: no     *)
(*     other session writes),                                              *)
(* log the storage calls issued, in order,                                 *)
(* ret the Python return value: "True", "False", or "Raise" when an        *)
(*     exception leaves the method.                                        *)
(*                                                                         *)
(* session is st.session_state of streamlit_app.py: the changes waiting    *)
(* for confirmation and the state of the tier-change dialogue; the engine  *)
(* never touches it.                                                       *)
(***************************************************************************)
EXTENDS Integers, Sequences, FiniteSets, TLC

VARIABLES table, last, session

vars == <<table, last, session>>

(* ------------------------------ bounds -------------------------------- *)

MaxInitRows == 3    \* rows of the initial table
MaxFail == 12       \* highest storage-call index that may be made to raise

(* ------------------------------ data ---------------------------------- *)

None == "<None>"

Tier2 == "Tier2"
SixMonths == "6Months"
Tier1 == "Tier1"
ThreeMonths == "3Months"

DualFiles == {Tier2, SixMonths}

FileOrder == <<ThreeMonths, SixMonths, Tier1, Tier2>>

Tiers == {FileOrder[i] : i \in 1..Len(FileOrder)}

Vendors == {"1001"}

VendorOrder == <<"1001", "2002">>

VN == "Vendor Number"
FILE == "FILE"
NameField == "Vendor Name"
ContactsField == "Vendor Contacts"

Fields == {NameField, ContactsField}

Cols == {VN, FILE} \cup Fields

email_fields == {ContactsField}

(* the values a stored row starts with: the e-mail field varies (a valid
   address, an address the validator drops), the name starts empty and is
   set by the calls *)
ContactVals == {"a@x.com", "bad"}

StoredVals(f) == IF f = ContactsField THEN {None} \cup ContactVals ELSE {None}

Row(vn, file, nm, ct) ==
    [k \in Cols |-> CASE k = VN -> vn
                      [] k = FILE -> file
                      [] k = NameField -> nm
                      [] OTHER -> ct]

EmptyDict == [k \in {} |-> None]

(* dict.update: b's entries over a's *)
DictUpdate(a, b) ==
    [k \in (DOMAIN a) \cup (DOMAIN b) |-> IF k \in DOMAIN b THEN b[k] ELSE a[k]]

DictWithout(d, ks) == [k \in (DOMAIN d) \ ks |-> d[k]]

(* `value is None or str(value).strip() == ''` *)
IsEmpty(v) == v = None \/ v = "" \/ v = " "

(* the SQL literal written for a Python value: NULL for None, '' and blank *)
SqlValue(v) == IF IsEmpty(v) THEN None ELSE v

(* EmailValidator.validate_email_list(...).normalized_value on the modelled
   strings: invalid addresses are dropped, the rest is sorted and joined *)
validate_email_list(v) ==
    CASE v = "a@x.com" -> "a@x.com"
      [] v = "A@X.COM" -> "A@x.com"
      [] v = "b@x.com;a@x.com" -> "a@x.com;b@x.com"
      [] v = "a@x.com;b@x.com" -> "a@x.com;b@x.com"
      [] OTHER -> ""

(* ------------------------------ table --------------------------------- *)

(* a variant whose WHERE clause names the tier only; C32 tells it from
   HasKey *)
HasKey_AnyVendor(r, vn, file) == r[FILE] = file

HasKey(r, vn, file) == r[VN] = vn /\ r[FILE] = file

RowsAt(t, vn, file) == SelectSeq(t, LAMBDA r : HasKey(r, vn, file))

CountAt(t, vn, file) == Len(RowsAt(t, vn, file))

RECURSIVE CanonFiles(_, _, _)
CanonFiles(t, vn, i) ==
    IF i > Len(FileOrder) THEN <<>>
    ELSE RowsAt(t, vn, FileOrder[i]) \o CanonFiles(t, vn, i + 1)

RECURSIVE CanonVendors(_, _)
CanonVendors(t, j) ==
    IF j > Len(VendorOrder) THEN <<>>
    ELSE CanonFiles(t, VendorOrder[j], 1) \o CanonVendors(t, j + 1)

(* key order, stable among rows with the same key *)
Canon(t) == CanonVendors(t, 1)

(* SELECT * WHERE "Vendor Number" = vn ORDER BY "FILE" *)
Combinations(t, vn) == CanonFiles(t, vn, 1)

Exists(t, vn, file) == CountAt(t, vn, file) > 0

First(s) == s[1]

(* ------------------------- storage adapter ---------------------------- *)

Ctx(t, fa) ==
    [t |-> t, n |-> 0, fa |-> fa, sa |-> 0, srow |-> <<>>, log |-> <<>>, ret |-> "True"]

(* a call during which another session inserts srow after statement sa *)
CtxShared(t, sa, srow) ==
    [t |-> t, n |-> 0, fa |-> 0, sa |-> sa, srow |-> srow, log |-> <<>>, ret |-> "True"]

(* a key occurs twice in the table *)
HasDuplicate(t) ==
    \E i, j \in 1..Len(t) : i < j /\ t[i][VN] = t[j][VN] /\ t[i][FILE] = t[j][FILE]

(* one storage call: its kind, the FILE it names, whether it went through,
   the count it returned, and what the table looks like once it is done *)
Ev(kind, file, ok, cnt, t) ==
    [k |-> kind, file |-> file, ok |-> ok, cnt |-> cnt,
     rows |-> Len(t), dup |-> HasDuplicate(t)]

(* the next storage call raises *)
Raises(c) == c.n + 1 = c.fa

Return(c, r) == [c EXCEPT !.ret = r]

(* session.sql(query).collect() / .to_pandas() for a read; the caller
   looks at Raises(c) to know whether it raised *)
Query(c, kind, file, cnt) ==
    [c EXCEPT !.n = @ + 1,
              !.log = Append(@, Ev(kind, file, ~Raises(c), cnt, c.t))]

(* the table once the statement being issued is over: what the statement
   left, plus the row of the other session when it writes at this point *)
After(c, t) == IF c.n + 1 = c.sa THEN Canon(Append(t, c.srow)) ELSE t

(* DatabaseManager._execute_dml: the statement either raises, is caught and
   reported as False with the table untouched, or takes effect *)
execute_dml(c, kind, file, newT) ==
    IF Raises(c)
    THEN [c EXCEPT !.n = @ + 1, !.ret = "False", !.t = After(c, c.t),
                   !.log = Append(@, Ev(kind, file, FALSE, 0, After(c, c.t)))]
    ELSE [c EXCEPT !.n = @ + 1, !.ret = "True", !.t = After(c, newT),
                   !.log = Append(@, Ev(kind, file, TRUE, 0, After(c, newT)))]

DeleteAt(t, vn, file) == SelectSeq(t, LAMBDA r : ~HasKey(r, vn, file))

(* UPDATE ... SET sets WHERE key: every row at the key is rewritten *)
UpdateAt(t, vn, file, sets) ==
    Canon([i \in 1..Len(t) |->
             IF HasKey(t[i], vn, file)
             THEN [k \in Cols |-> IF k \in DOMAIN sets THEN sets[k] ELSE t[i][k]]
             ELSE t[i]])

(* a variant that builds no SET clause from the updates; C12 tells it from
   SetClauses *)
SetClauses_NoFields(updates) == EmptyDict

(* a variant that does not skip the FILE entry of the updates; C33 tells it
   from SetClauses *)
SetClauses_WithFile(updates) ==
    [k \in (DOMAIN updates) \cap Cols |-> SqlValue(updates[k])]

(* the SET clauses built from a dict of updates: FILE is skipped, empty
   values become NULL *)
SetClauses(updates) ==
    [k \in ((DOMAIN updates) \cap Cols) \ {FILE} |-> SqlValue(updates[k])]

(* DatabaseManager._update_single_vendor *)
update_single_vendor(c, vn, file, updates) ==
    IF DOMAIN updates = {} THEN Return(c, "True")
    ELSE IF DOMAIN SetClauses(updates) = {} THEN Return(c, "True")
    ELSE execute_dml(c, "UPDATE", file, UpdateAt(c.t, vn, file, SetClauses(updates)))

(* DatabaseManager._insert_single_vendor: columns not given are NULL *)
InsertedRow(data) ==
    [k \in Cols |-> IF k \in DOMAIN data THEN SqlValue(data[k]) ELSE None]

insert_single_vendor(c, data) ==
    execute_dml(c, "INSERT", data[FILE], Canon(Append(c.t, InsertedRow(data))))

(* a variant that updates the target row only, pair or not; C14 tells it
   from update_dual_entry_vendor *)
update_dual_entry_vendor_TargetOnly(c, vn, file, updates) ==
    LET c1 == Query(c, "SELECT", "pair", 0)
    IN  IF Raises(c) THEN Return(c1, "False")
        ELSE update_single_vendor(c1, vn, file, updates)

(* DatabaseManager._update_dual_entry_vendor *)
update_dual_entry_vendor(c, vn, file, updates) ==
    LET c1 == Query(c, "SELECT", "pair", 0)
    IN  IF Raises(c) THEN Return(c1, "False")
        ELSE IF ~Exists(c.t, vn, Tier2) \/ ~Exists(c.t, vn, SixMonths)
        THEN update_single_vendor(c1, vn, file, updates)
        ELSE LET c2 == update_single_vendor(c1, vn, Tier2, updates)
             IN  IF c2.ret = "True"
                 THEN update_single_vendor(c2, vn, SixMonths, updates)
                 ELSE c2

(* a variant without the early return on empty updates; C15 tells it from
   update_vendor *)
update_vendor_NoEarlyReturn(c, vn, file, updates) ==
    IF file \in DualFiles THEN update_dual_entry_vendor(c, vn, file, updates)
    ELSE update_single_vendor(c, vn, file, updates)

(* DatabaseManager.update_vendor *)
update_vendor(c, vn, file, updates) ==
    IF DOMAIN updates = {} THEN Return(c, "True")
    ELSE IF file \in DualFiles THEN update_dual_entry_vendor(c, vn, file, updates)
    ELSE update_single_vendor(c, vn, file, updates)

(* a variant that gives the 6Months entry the key and none of the data;
   C6 tells it from create_dual_entry_data *)
create_dual_entry_data_KeyOnly(data) ==
    <<DictUpdate(data, [k \in {FILE} |-> Tier2]),
      [k \in {VN, FILE} |-> IF k = VN THEN data[VN] ELSE SixMonths]>>

(* a variant that files both copies under Tier2; C29 tells it from
   create_dual_entry_data *)
create_dual_entry_data_BothTier2(data) ==
    <<DictUpdate(data, [k \in {FILE} |-> Tier2]),
      DictUpdate(data, [k \in {FILE} |-> Tier2])>>

(* VendorProcessor.create_dual_entry_data *)
create_dual_entry_data(data) ==
    <<DictUpdate(data, [k \in {FILE} |-> Tier2]),
      DictUpdate(data, [k \in {FILE} |-> SixMonths])>>

(* a variant that inserts the Tier2 row only; C27 tells it from
   insert_dual_entry_vendor *)
insert_dual_entry_vendor_Tier2Only(c, data) ==
    insert_single_vendor(c, create_dual_entry_data(data)[1])

(* DatabaseManager._insert_dual_entry_vendor *)
insert_dual_entry_vendor(c, data) ==
    LET pair == create_dual_entry_data(data)
        c1 == insert_single_vendor(c, pair[1])
    IN  IF c1.ret = "True" THEN insert_single_vendor(c1, pair[2]) ELSE c1

(* DatabaseManager.insert_vendor *)
insert_vendor(c, data) ==
    IF FILE \in DOMAIN data /\ data[FILE] = Tier2
    THEN insert_dual_entry_vendor(c, data)
    ELSE insert_single_vendor(c, data)

(* ------------------------- tier change steps -------------------------- *)

(* DatabaseManager._make_explicit_tier_change: UPDATE the FILE of the rows
   at (vn, orig), then count the rows at (vn, new) *)
make_explicit_tier_change(c, vn, orig, new, updates) ==
    LET sets == DictUpdate(SetClauses(updates), [k \in {FILE} |-> new])
        c1 == execute_dml(c, "UPDATE", orig, UpdateAt(c.t, vn, orig, sets))
        row_count == CountAt(c1.t, vn, new)
        c2 == Query(c1, "COUNT", new, row_count)
        c3 == Query(c2, "COUNT", orig, CountAt(c2.t, vn, orig))
    IN  IF c1.ret = "False" THEN c1
        ELSE IF Raises(c1) THEN Return(c2, "True")
        ELSE IF row_count = 0
             THEN IF Raises(c2) THEN Return(c3, "True") ELSE Return(c3, "False")
        ELSE Return(c2, "True")

(* DatabaseManager._delete_orphaned_secondary *)
delete_orphaned_secondary(c, vn, file) ==
    execute_dml(c, "DELETE", file, DeleteAt(c.t, vn, file))

(* a variant that keeps the first row as it is; C17 tells it from
   MergeEntries *)
MergeEntries_FirstRow(entries, i, merged) == merged

(* the merge loop of _check_and_fix_duplicates: the first row, with each
   empty field filled from the first later row that has it non-empty *)
RECURSIVE MergeEntries(_, _, _)
MergeEntries(entries, i, merged) ==
    IF i > Len(entries) THEN merged
    ELSE MergeEntries(entries, i + 1,
            [k \in Cols |->
                IF k \in {FILE, VN} THEN merged[k]
                ELSE IF IsEmpty(merged[k]) /\ ~IsEmpty(entries[i][k])
                     THEN entries[i][k]
                     ELSE merged[k]])

DuplicatedFiles(t, vn) == {i \in 1..Len(FileOrder) : CountAt(t, vn, FileOrder[i]) > 1}

Min(S) == CHOOSE x \in S : \A y \in S : x <= y

(* DatabaseManager._check_and_fix_duplicates *)
check_and_fix_duplicates(c, vn) ==
    LET c1 == Query(c, "SELECT", "all", 0)
    IN  IF Raises(c) THEN Return(c1, "False")
        ELSE IF DuplicatedFiles(c.t, vn) = {} THEN Return(c1, "True")
        ELSE
          LET file_value == FileOrder[Min(DuplicatedFiles(c.t, vn))]
              entries == RowsAt(c.t, vn, file_value)
              merged0 == MergeEntries(entries, 2, entries[1])
              merged_entry == DictUpdate(merged0,
                                [k \in {VN, FILE} |-> IF k = VN THEN vn ELSE file_value])
              c2 == execute_dml(c1, "DELETE", file_value, DeleteAt(c1.t, vn, file_value))
              c3 == Query(c2, "COUNT", file_value, CountAt(c2.t, vn, file_value))
              c4 == insert_single_vendor(c3, merged_entry)
              inserted_count == CountAt(c4.t, vn, file_value)
              c5 == Query(c4, "COUNT", file_value, inserted_count)
          IN  IF c2.ret = "False" THEN c2
              ELSE IF Raises(c2) THEN Return(c3, "False")
              ELSE IF c4.ret = "False" THEN c4
              ELSE IF Raises(c4) THEN Return(c5, "False")
              ELSE IF inserted_count = 0 THEN Return(c5, "False")
              ELSE Return(c5, "True")

(* str(value or '').strip() *)
Str(v) == IF IsEmpty(v) THEN "" ELSE v

(* a variant that prefers the 6Months value; C9 tells it from PreferTier2 *)
PreferSixMonths(tier2_value, sixmonths_value) ==
    IF ~IsEmpty(sixmonths_value) THEN sixmonths_value
    ELSE IF ~IsEmpty(tier2_value) THEN tier2_value
    ELSE tier2_value

(* a variant that takes the Tier2 value even when it is empty; C21 tells it
   from PreferTier2 *)
PreferTier2_Always(tier2_value, sixmonths_value) == tier2_value

(* the per-field choice shared by the pair merges: a non-empty Tier2 value,
   else a non-empty 6Months value, else the Tier2 value *)
PreferTier2(tier2_value, sixmonths_value) ==
    IF ~IsEmpty(tier2_value) THEN tier2_value
    ELSE IF ~IsEmpty(sixmonths_value) THEN sixmonths_value
    ELSE tier2_value

(* a Python value is truthy *)
Truthy(v) == v # None /\ v # ""

(* a variant that syncs the pair whether or not a field differs; C20 tells
   it from needs_sync *)
needs_sync_Always(mismatches) == TRUE

(* `if mismatches:` the pair is written only when some field differs *)
needs_sync(mismatches) == mismatches # {}

(* DatabaseManager._check_and_fix_unsynced_dual *)
check_and_fix_unsynced_dual(c, vn) ==
    LET c1 == Query(c, "SELECT", "all", 0)
    IN  IF Raises(c) THEN Return(c1, "False")
        ELSE IF ~Exists(c.t, vn, Tier2) \/ ~Exists(c.t, vn, SixMonths)
        THEN Return(c1, "True")
        ELSE
          LET tier2_entry == First(RowsAt(c.t, vn, Tier2))
              sixmonths_entry == First(RowsAt(c.t, vn, SixMonths))
              mismatches == {f \in Cols \ {FILE} :
                               Str(tier2_entry[f]) # Str(sixmonths_entry[f])}
              merged_data == [f \in Cols \ {FILE} |->
                               IF f \in mismatches
                               THEN PreferTier2(tier2_entry[f], sixmonths_entry[f])
                               ELSE tier2_entry[f]]
              normalized == [f \in Cols \ {FILE} |->
                               IF f \in email_fields /\ Truthy(merged_data[f])
                               THEN validate_email_list(merged_data[f])
                               ELSE merged_data[f]]
              sync_updates == DictWithout(normalized, {VN, FILE})
          IN  IF needs_sync(mismatches)
              THEN update_dual_entry_vendor(c1, vn, Tier2, sync_updates)
              ELSE Return(c1, "True")

(* a variant that deletes the original row whatever its tier; C7 tells it
   from deletes_original *)
deletes_original_Always(orig) == TRUE

(* `if original_file != '6Months'`: on the path that updated the 6Months row
   in place, the original row is deleted unless it is that row *)
deletes_original(orig) == orig # SixMonths

(* DatabaseManager._change_to_tier2_with_dual_entry *)
change_to_tier2_with_dual_entry(c, vn, orig, updates) ==
    LET c1 == Query(c, "SELECT", "all", 0)
        sixmonths_exists == Exists(c.t, vn, SixMonths)
        c2 == Query(c1, "GET", orig, CountAt(c.t, vn, orig))
    IN  IF Raises(c) THEN Return(c1, "False")
        ELSE IF Raises(c1) THEN Return(c2, "False")
        ELSE IF ~Exists(c.t, vn, orig) THEN Return(c2, "False")
        ELSE
          LET current_vendor == First(RowsAt(c.t, vn, orig))
              updated_vendor_data ==
                  DictUpdate(DictUpdate(current_vendor, updates), [k \in {VN} |-> vn])
              pair == create_dual_entry_data(updated_vendor_data)
              tier2_data == pair[1]
              sixmonths_data == pair[2]
          IN  IF sixmonths_exists
              THEN LET u == update_single_vendor(c2, vn, SixMonths, sixmonths_data)
                       i == insert_single_vendor(u, tier2_data)
                       d == execute_dml(i, "DELETE", orig, DeleteAt(i.t, vn, orig))
                   IN  IF u.ret = "False" THEN u
                       ELSE IF i.ret = "False" THEN i
                       ELSE IF deletes_original(orig) THEN d
                       ELSE Return(i, "True")
              ELSE LET i1 == insert_single_vendor(c2, tier2_data)
                       i2 == insert_single_vendor(i1, sixmonths_data)
                       d == execute_dml(i2, "DELETE", orig, DeleteAt(i2.t, vn, orig))
                   IN  IF i1.ret = "False" THEN i1
                       ELSE IF i2.ret = "False" THEN i2
                       ELSE d

(* a variant that writes the merged data to (vn, new) first and deletes the
   rows at (vn, orig) afterwards; C8 tells it from delete_then_update *)
delete_then_update_WriteFirst(c1, vn, orig, new, merged_data) ==
    LET c2 == update_single_vendor(c1, vn, new, merged_data)
        c3 == Query(c2, "COUNT", new, CountAt(c2.t, vn, new))
        c4 == execute_dml(c3, "DELETE", orig, DeleteAt(c3.t, vn, orig))
        c5 == Query(c4, "COUNT", orig, CountAt(c4.t, vn, orig))
    IN  IF c2.ret = "False" THEN c2
        ELSE IF Raises(c2) THEN Return(c3, "False")
        ELSE IF c4.ret = "False" THEN c4
        ELSE IF Raises(c4) THEN Return(c5, "False")
        ELSE Return(c5, "True")

(* Steps 2 and 3 of _change_within_dual_entry: delete the rows at
   (vn, orig), count what is left there, then update the rows at (vn, new)
   with the merged data and count them *)
delete_then_update(c1, vn, orig, new, merged_data) ==
    LET c2 == execute_dml(c1, "DELETE", orig, DeleteAt(c1.t, vn, orig))
        remaining_count == CountAt(c2.t, vn, orig)
        c3 == Query(c2, "COUNT", orig, remaining_count)
        c4 == update_single_vendor(c3, vn, new, merged_data)
        updated_count == CountAt(c4.t, vn, new)
        c5 == Query(c4, "COUNT", new, updated_count)
    IN  IF c2.ret = "False" THEN c2
        ELSE IF Raises(c2) THEN Return(c3, "False")
        ELSE IF remaining_count > 0 THEN Return(c3, "False")
        ELSE IF c4.ret = "False" THEN c4
        ELSE IF Raises(c4) THEN Return(c5, "False")
        ELSE IF updated_count = 0 THEN Return(c5, "False")
        ELSE Return(c5, "True")

(* DatabaseManager._change_within_dual_entry *)
change_within_dual_entry(c, vn, orig, new, updates) ==
    LET c1 == Query(c, "SELECT", "all", 0)
    IN  IF Raises(c) THEN Return(c1, "False")
        ELSE IF ~Exists(c.t, vn, Tier2) \/ ~Exists(c.t, vn, SixMonths)
        THEN make_explicit_tier_change(c1, vn, orig, new, updates)
        ELSE
          LET tier2_entry == First(RowsAt(c.t, vn, Tier2))
              sixmonths_entry == First(RowsAt(c.t, vn, SixMonths))
              merged0 == [f \in Cols \ {FILE} |->
                            PreferTier2(tier2_entry[f], sixmonths_entry[f])]
              merged_data == DictUpdate(merged0, updates)
          IN  delete_then_update(c1, vn, orig, new, merged_data)

(* DatabaseManager._check_and_fix_missing_secondary: a Tier2 row without a
   6Months row gets a 6Months copy. No path of the engine calls it. *)
check_and_fix_missing_secondary(c, vn) ==
    LET c1 == Query(c, "SELECT", "all", 0)
    IN  IF Raises(c) THEN Return(c1, "False")
        ELSE IF Exists(c.t, vn, Tier2) /\ ~Exists(c.t, vn, SixMonths)
        THEN insert_single_vendor(c1,
                 DictUpdate(First(RowsAt(c.t, vn, Tier2)), [k \in {FILE} |-> SixMonths]))
        ELSE Return(c1, "True")

(* a variant that runs the missing-secondary pass before the other two;
   C13 tells it from implicit_checks *)
implicit_checks_WithMissingSecondary(o, vn) ==
    check_and_fix_unsynced_dual(
        check_and_fix_duplicates(check_and_fix_missing_secondary(o, vn), vn), vn)

(* the implicit checks that end the regular path of change_vendor_tier:
   duplicates, then the pair's sync; their results are not looked at *)
implicit_checks(o, vn) ==
    check_and_fix_unsynced_dual(check_and_fix_duplicates(o, vn), vn)

(* DatabaseManager.change_vendor_tier *)
change_vendor_tier(c, vn, orig, new, updates) ==
    LET field_updates == DictWithout(updates, {FILE})
        q == Query(c, "SELECT", "all", 0)
        both == Exists(c.t, vn, Tier2) /\ Exists(c.t, vn, SixMonths)
    IN  IF new = Tier2
        THEN IF Raises(c) THEN Return(q, "Raise")
             ELSE IF both
                  THEN change_within_dual_entry(q, vn, orig, new, field_updates)
                  ELSE change_to_tier2_with_dual_entry(q, vn, orig, field_updates)
        ELSE IF orig \in DualFiles /\ new \in DualFiles /\ orig # new
        THEN IF Raises(c) THEN Return(q, "Raise")
             ELSE IF both
                  THEN change_within_dual_entry(q, vn, orig, new, field_updates)
                  ELSE make_explicit_tier_change(q, vn, orig, new, field_updates)
        ELSE
          LET e == make_explicit_tier_change(c, vn, orig, new, field_updates)
              o == IF orig \in DualFiles /\ new \notin DualFiles
                   THEN delete_orphaned_secondary(e, vn,
                            IF orig = Tier2 THEN SixMonths ELSE Tier2)
                   ELSE e
              s == implicit_checks(o, vn)
          IN  IF e.ret = "False" THEN e ELSE Return(s, "True")

(* ------------------------------ inputs -------------------------------- *)

(* the field updates a caller may pass *)
FailUpdate == NameField :> "Bob"

UpdateSet ==
    { EmptyDict,
      FailUpdate,
      NameField :> "Acme" @@ ContactsField :> "bad",
      NameField :> "" @@ ContactsField :> None,
      FILE :> Tier1 }

(* the field values of a new vendor *)
NewVendorFields ==
    { NameField :> "Acme" @@ ContactsField :> "",
      NameField :> "Bob" @@ ContactsField :> "a@x.com" }

NewVendorData(vn, file, flds) ==
    DictUpdate([k \in {VN, FILE} |-> IF k = VN THEN vn ELSE file], flds)

(* ------------------------------ state --------------------------------- *)

(* st.session_state as streamlit_app.py initializes it; an empty dict
   stands for None in the entries that hold a dict or an object
   (search_results, selected_vendor, tier_change_receipt, pending_changes,
   original_vendor) *)
NoSession ==
    [current_mode |-> "search", search_results |-> EmptyDict,
     search_performed |-> FALSE, search_value |-> "",
     selected_vendor |-> EmptyDict,
     tier_change_state |-> None, tier_change_warning |-> None,
     tier_change_receipt |-> EmptyDict,
     pending_changes |-> EmptyDict, original_vendor |-> EmptyDict,
     file_changing |-> FALSE]

NoLast ==
    [op |-> "none", vn |-> "", file |-> "", new |-> "", upd |-> EmptyDict,
     fa |-> 0, sa |-> 0, ret |-> "", pre |-> <<>>, was |-> NoSession, log |-> <<>>]

Done(op, vn, file, new, upd, c) ==
    [op |-> op, vn |-> vn, file |-> file, new |-> new, upd |-> upd,
     fa |-> c.fa, sa |-> c.sa, ret |-> c.ret, pre |-> table, was |-> session,
     log |-> c.log]

RowKinds ==
    {Row(vn, file, nm, ct) : vn \in Vendors, file \in Tiers,
                             nm \in StoredVals(NameField), ct \in StoredVals(ContactsField)}

(* the stored table before the first call: any table of at most MaxInitRows
   rows. A key may be duplicated and a Tier2/6Months pair may be out of
   sync: insert_vendor has no existence check, so the calls modelled here
   leave such tables behind. *)
InitTables ==
    {t \in UNION {[1..n -> RowKinds] : n \in 0..MaxInitRows} : Canon(t) = t}

Init ==
    /\ table \in InitTables
    /\ last = NoLast
    /\ session = NoSession

(* the storage call chosen to raise was issued by the call *)
Issued(c) == c.fa <= c.n

FailAts == 0..MaxFail

(* the calls at which a failure can be injected into a run: until the call
   that raises, the run is the run of a storage that answers every call, so
   the call that raises is one of the n calls that run issues *)
FailPoints(n) == {fa \in FailAts : fa <= n}

(* ------------------------------ actions ------------------------------- *)

InsertVendor ==
    /\ last.op = "none"
    /\ \E vn \in Vendors, file \in Tiers, flds \in NewVendorFields :
          \E data \in {NewVendorData(vn, file, flds)} :
          \E c0 \in {insert_vendor(Ctx(table, 0), data)} :
          \E fa \in FailPoints(c0.n) :
          \E c \in {IF fa = 0 THEN c0 ELSE insert_vendor(Ctx(table, fa), data)} :
              /\ Issued(c)
              /\ table' = c.t
              /\ session' = session
              /\ last' = Done("insert_vendor", vn, file, file, data, c)

UpdateVendor ==
    /\ last.op = "none"
    /\ \E vn \in Vendors, file \in Tiers, upd \in UpdateSet :
          \E c0 \in {update_vendor(Ctx(table, 0), vn, file, upd)} :
          \E fa \in FailPoints(c0.n) :
          \E c \in {IF fa = 0 THEN c0 ELSE update_vendor(Ctx(table, fa), vn, file, upd)} :
              /\ Issued(c)
              /\ table' = c.t
              /\ session' = session
              /\ last' = Done("update_vendor", vn, file, file, upd, c)

(* The storage calls a tier change issues depend on the rows present and on
   the two tiers, not on the content of the field updates, so a failure is
   injected with one non-empty update (FailUpdate) and the other updates are
   tried with a storage that does not fail. *)
ChangeTierFailPoints(upd, n) ==
    IF upd = FailUpdate THEN FailPoints(n) ELSE {0}

ChangeTier ==
    /\ last.op = "none"
    /\ \E vn \in Vendors, orig \in Tiers, new \in Tiers, upd \in UpdateSet :
          \E c0 \in {change_vendor_tier(Ctx(table, 0), vn, orig, new, upd)} :
          \E fa \in ChangeTierFailPoints(upd, c0.n) :
          \E c \in {IF fa = 0 THEN c0
                    ELSE change_vendor_tier(Ctx(table, fa), vn, orig, new, upd)} :
              /\ Issued(c)
              /\ table' = c.t
              /\ session' = session
              /\ last' = Done("change_vendor_tier", vn, orig, new, upd, c)

Deduplicate ==
    /\ last.op = "none"
    /\ \E vn \in Vendors, fa \in FailAts :
          \E c \in {check_and_fix_duplicates(Ctx(table, fa), vn)} :
              /\ Issued(c)
              /\ table' = c.t
              /\ session' = session
              /\ last' = Done("deduplicate", vn, "", "", EmptyDict, c)

ResyncDualPair ==
    /\ last.op = "none"
    /\ \E vn \in Vendors, fa \in FailAts :
          \E c \in {check_and_fix_unsynced_dual(Ctx(table, fa), vn)} :
              /\ Issued(c)
              /\ table' = c.t
              /\ session' = session
              /\ last' = Done("resync", vn, "", "", EmptyDict, c)

Next ==
    \/ InsertVendor
    \/ UpdateVendor
    \/ ChangeTier
    \/ Deduplicate
    \/ ResyncDualPair

Spec == Init /\ [][Next]_vars

TypeOK ==
    /\ Len(table) <= MaxInitRows + 2
    /\ \A i \in 1..Len(table) : DOMAIN table[i] = Cols

(* ------------------------- reading a result --------------------------- *)

Completed == last.op # "none"

Succeeded == last.ret = "True"

IsChangeTier == last.op = "change_vendor_tier"

NoDuplicates(t) == ~HasDuplicate(t)

(* every Tier2 row and every 6Months row of vn agree on every non-tier field *)
Synced(t, vn) ==
    \A i, j \in 1..Len(t) :
        (HasKey(t[i], vn, Tier2) /\ HasKey(t[j], vn, SixMonths))
            => \A f \in Fields : t[i][f] = t[j][f]

WriteKinds == {"INSERT", "UPDATE", "DELETE"}

(* the call wrote to the key (vn, file) *)
Wrote(file) ==
    \E i \in 1..Len(last.log) :
        last.log[i].k \in WriteKinds /\ last.log[i].ok /\ last.log[i].file = file

(* what a field holds once a row is overlaid with the updates *)
Overlaid(row, upd, f) ==
    IF f \in DOMAIN upd THEN (IF upd[f] \in {None, "", " "} THEN None ELSE upd[f])
    ELSE row[f]

(* the first row the table before the call held at a key *)
PreRow(file) == last.pre[Min({i \in 1..Len(last.pre) : HasKey(last.pre[i], last.vn, file)})]

PreHas(file) == \E i \in 1..Len(last.pre) : HasKey(last.pre[i], last.vn, file)

NowCount(file) ==
    Cardinality({i \in 1..Len(table) : HasKey(table[i], last.vn, file)})

PreCount(file) ==
    Cardinality({i \in 1..Len(last.pre) : HasKey(last.pre[i], last.vn, file)})

(* ------------------------------ claims -------------------------------- *)

(* C1: starting from a table in which no (vendor, tier) key occurs twice,
   after any engine operation that completed (returned success) every
   vendor has at most one row per tier value. *)
C1_NoTrueDuplicates ==
    (Completed /\ Succeeded /\ NoDuplicates(last.pre)) => NoDuplicates(table)

(* C2: after an update_vendor or change_vendor_tier call that returned
   success and wrote to the Tier2 row or the 6Months row of a vendor, if
   both rows exist then all their non-tier fields are equal, whatever the
   updates and whatever the pair held before. *)
C2_SyncAfterWrite ==
    (last.op \in {"update_vendor", "change_vendor_tier"} /\ Succeeded
        /\ (Wrote(Tier2) \/ Wrote(SixMonths)))
    => Synced(table, last.vn)

(* C3: whenever _check_and_fix_unsynced_dual returns success for a vendor
   that has both a Tier2 and a 6Months row, every non-tier field has the
   same value in both rows. *)
C3_ResyncPostcondition ==
    (last.op = "resync" /\ Succeeded /\ NowCount(Tier2) > 0 /\ NowCount(SixMonths) > 0)
    => Synced(table, last.vn)

(* C4: change_vendor_tier with new tier Tier1 reports failure and leaves
   the table unchanged, whatever the vendor, the original tier and the
   updates. *)
C4_Tier1TargetRejected ==
    (IsChangeTier /\ last.new = Tier1) => (~Succeeded /\ table = last.pre)

(* C5: no operation creates a Tier1 row, and no existing Tier1 row has a
   field or its tier changed or is deleted. *)
C5_Tier1Protected ==
    Completed =>
        \A vn \in Vendors : RowsAt(table, vn, Tier1) = RowsAt(last.pre, vn, Tier1)

(* the rows the table before the call held at a key of the vendor *)
PreRows(file) == {last.pre[i] : i \in {j \in 1..Len(last.pre) : HasKey(last.pre[j], last.vn, file)}}

NowRows(file) == {table[i] : i \in {j \in 1..Len(table) : HasKey(table[j], last.vn, file)}}

(* row r holds, in every non-tier field, what row o overlaid with the
   updates of the call holds *)
IsOverlay(r, o) == \A f \in Fields : r[f] = Overlaid(o, last.upd, f)

LogHas(kinds, file, oks) ==
    \E i \in 1..Len(last.log) :
        last.log[i].k \in kinds /\ last.log[i].file = file /\ last.log[i].ok \in oks

(* C6: when the vendor has a row at the original tier and neither a Tier2
   nor a 6Months row, a successful change to Tier2 leaves exactly one Tier2
   row and exactly one 6Months row, both holding the original row overlaid
   with the updates in every non-tier field, and no row at the original
   tier. *)
C6_DualCreationFromScratch ==
    (IsChangeTier /\ last.new = Tier2 /\ Succeeded
        /\ PreHas(last.file) /\ ~PreHas(Tier2) /\ ~PreHas(SixMonths))
    => /\ NowCount(Tier2) = 1
       /\ NowCount(SixMonths) = 1
       /\ NowCount(last.file) = 0
       /\ \E o \in PreRows(last.file) :
             \A r \in NowRows(Tier2) \cup NowRows(SixMonths) : IsOverlay(r, o)

C6_Witness ==
    /\ IsChangeTier /\ last.new = Tier2 /\ Succeeded
    /\ PreHas(last.file) /\ ~PreHas(Tier2) /\ ~PreHas(SixMonths)
    /\ last.upd = (NameField :> "Acme" @@ ContactsField :> "bad")
    /\ PreRow(last.file)[ContactsField] = "a@x.com"

(* C7: when a 6Months row exists and no Tier2 row exists, a successful
   change to Tier2 updates the 6Months row in place with the original row
   overlaid with the updates, inserts one Tier2 row with the same non-tier
   fields, deletes the original row if and only if the original tier is not
   6Months, and never deletes the 6Months row. *)
C7_DualCreationWithSixMonths ==
    (IsChangeTier /\ last.new = Tier2 /\ Succeeded
        /\ PreHas(SixMonths) /\ ~PreHas(Tier2))
    => /\ NowCount(SixMonths) = PreCount(SixMonths)
       /\ ~LogHas({"DELETE"}, SixMonths, {TRUE, FALSE})
       /\ LogHas({"UPDATE"}, SixMonths, {TRUE})
       /\ NowCount(Tier2) = 1
       /\ \E o \in PreRows(last.file) :
             \A r \in NowRows(Tier2) \cup NowRows(SixMonths) : IsOverlay(r, o)
       /\ (last.file # SixMonths) <=> LogHas({"DELETE"}, last.file, {TRUE})
       /\ (last.file # SixMonths) => NowCount(last.file) = 0

C7_Witness ==
    /\ IsChangeTier /\ last.new = Tier2 /\ Succeeded
    /\ PreHas(SixMonths) /\ ~PreHas(Tier2)
    /\ last.file = ThreeMonths
    /\ PreRow(ThreeMonths)[ContactsField] # PreRow(SixMonths)[ContactsField]

(* the call is a change between Tier2 and 6Months on a vendor that held
   both rows *)
IsSwap ==
    /\ IsChangeTier
    /\ last.file \in DualFiles /\ last.new \in DualFiles /\ last.file # last.new
    /\ PreHas(Tier2) /\ PreHas(SixMonths)

(* storage call i of the call is the delete of the original row, the
   read-back at the original key, a write to the new key *)
IsDeleteOrig(i) == last.log[i].k = "DELETE" /\ last.log[i].file = last.file

IsReadBackOrig(i) == last.log[i].k = "COUNT" /\ last.log[i].file = last.file

IsWriteNew(i) == last.log[i].k \in {"UPDATE", "INSERT"} /\ last.log[i].file = last.new

(* C8: in a change between Tier2 and 6Months on a vendor holding both, every
   write to the new tier's row comes after a delete of the original row that
   went through and after a read-back that found no row left at that key; if
   the delete fails or the read-back fails or finds a row, the call returns
   failure and the new tier's row is not written. *)
C8_SwapDeleteBeforeWrite ==
    IsSwap =>
      /\ \A w \in 1..Len(last.log) :
            IsWriteNew(w) =>
              \E d, r \in 1..Len(last.log) :
                 /\ d < r /\ r < w
                 /\ IsDeleteOrig(d) /\ last.log[d].ok
                 /\ IsReadBackOrig(r) /\ last.log[r].ok /\ last.log[r].cnt = 0
      /\ (\E i \in 1..Len(last.log) :
              \/ IsDeleteOrig(i) /\ ~last.log[i].ok
              \/ IsReadBackOrig(i) /\ (~last.log[i].ok \/ last.log[i].cnt > 0))
         => /\ last.ret = "False"
            /\ \A w \in 1..Len(last.log) : ~IsWriteNew(w)
            /\ RowsAt(table, last.vn, last.new) = RowsAt(last.pre, last.vn, last.new)

C8_Witness ==
    /\ IsSwap
    /\ \E i \in 1..Len(last.log) : IsDeleteOrig(i) /\ ~last.log[i].ok
    /\ last.ret = "False"

(* C9: after a successful change between Tier2 and 6Months on a vendor that
   held both rows, no row is left at the original tier and the row at the
   new tier holds, for each non-tier field, the update value if one was
   supplied, else the Tier2 row's non-empty value, else the 6Months row's
   non-empty value, else null. *)
C9_SwapResult ==
    (IsSwap /\ Succeeded)
    => /\ NowCount(last.file) = 0
       /\ NowCount(last.new) >= 1
       /\ \E t2 \in PreRows(Tier2), sm \in PreRows(SixMonths) :
             \A r \in NowRows(last.new) : \A f \in Fields :
                r[f] = IF f \in DOMAIN last.upd
                       THEN (IF last.upd[f] \in {None, "", " "} THEN None ELSE last.upd[f])
                       ELSE IF t2[f] \notin {None, "", " "} THEN t2[f]
                       ELSE IF sm[f] \notin {None, "", " "} THEN sm[f]
                       ELSE None

C9_Witness ==
    /\ IsSwap /\ Succeeded
    /\ last.upd = (NameField :> "Bob")
    /\ PreRow(Tier2)[ContactsField] = "a@x.com"
    /\ PreRow(SixMonths)[ContactsField] = "bad"

(* C10: after change_vendor_tier returns success with the original tier in
   {Tier2, 6Months} and the new tier outside it, the vendor has neither a
   Tier2 row nor a 6Months row; if the vendor held exactly one Tier2 row and
   one 6Months row before, exactly one row remains and its tier is the new
   tier. *)
C10_LeavingPairRemovesOrphan ==
    (IsChangeTier /\ Succeeded
        /\ last.file \in DualFiles /\ last.new \notin DualFiles)
    => /\ NowCount(Tier2) = 0
       /\ NowCount(SixMonths) = 0
       /\ (Len(Combinations(last.pre, last.vn)) = 2
              /\ PreCount(Tier2) = 1 /\ PreCount(SixMonths) = 1)
          => /\ Len(Combinations(table, last.vn)) = 1
             /\ NowCount(last.new) = 1

(* a value that counts as empty: null, the empty string, blanks *)
Emptyish(v) == v \in {None, "", " "}

(* C11: when change_vendor_tier moves a vendor that holds one Tier2 row and
   one 6Months row to a tier outside the pair and returns success, the row
   at the new tier is the merge of both: a field that is empty in the
   original row and non-empty in the sibling row, and that the updates do
   not set, holds the sibling's value. *)
C11_LeavingPairMerges ==
    (IsChangeTier /\ Succeeded
        /\ last.file \in DualFiles /\ last.new \notin DualFiles
        /\ PreCount(Tier2) = 1 /\ PreCount(SixMonths) = 1 /\ PreCount(last.new) = 0)
    => /\ NowCount(last.new) = 1
       /\ \A r \in NowRows(last.new) : \A f \in Fields \ DOMAIN last.upd :
             LET own == PreRow(last.file)[f]
                 sib == PreRow(IF last.file = Tier2 THEN SixMonths ELSE Tier2)[f]
             IN  (Emptyish(own) /\ ~Emptyish(sib)) => r[f] = sib

(* row o with its tier rewritten and the updates of the call laid over it *)
Rewritten(o, new) ==
    [k \in Cols |-> IF k = FILE THEN new
                    ELSE IF k \in Fields THEN Overlaid(o, last.upd, k)
                    ELSE o[k]]

(* C12: in a change from Tier2 to 6Months on a vendor that holds a Tier2 row
   and no 6Months row, a successful change_vendor_tier rewrites the tier of
   that row to 6Months in place with the updates applied: no row is
   inserted or deleted and no other row changes. *)
C12_SingleRowFallback ==
    (IsChangeTier /\ Succeeded
        /\ last.file = Tier2 /\ last.new = SixMonths
        /\ PreHas(Tier2) /\ ~PreHas(SixMonths))
    => /\ NowCount(Tier2) = 0
       /\ RowsAt(table, last.vn, SixMonths)
            = [i \in 1..PreCount(Tier2) |->
                 Rewritten(RowsAt(last.pre, last.vn, Tier2)[i], SixMonths)]
       /\ \A i \in 1..Len(last.log) : last.log[i].k \notin {"INSERT", "DELETE"}
       /\ \A f \in Tiers \ DualFiles :
             RowsAt(table, last.vn, f) = RowsAt(last.pre, last.vn, f)

C12_Witness ==
    /\ IsChangeTier /\ Succeeded
    /\ last.file = Tier2 /\ last.new = SixMonths
    /\ PreCount(Tier2) = 1 /\ ~PreHas(SixMonths)
    /\ last.upd = (NameField :> "Acme" @@ ContactsField :> "bad")
    /\ PreRow(Tier2)[ContactsField] = "a@x.com"

(* the call is one that is meant to create a row at tier f: a change to
   that tier, or a new vendor at that tier (Tier2 brings 6Months along) *)
Targets(f) ==
    \/ IsChangeTier /\ last.new = f
    \/ IsChangeTier /\ last.new = Tier2 /\ f = SixMonths
    \/ last.op = "insert_vendor" /\ last.file = f
    \/ last.op = "insert_vendor" /\ last.file = Tier2 /\ f = SixMonths

(* C13: for a vendor with a 6Months row and no Tier2 row, no call other than
   a change to Tier2 or a new vendor at Tier2 inserts a Tier2 row or leaves
   the vendor with one; and no call that does not target a tier of the pair
   makes a missing row of the pair appear. *)
C13_NoAutomaticTier2 ==
    Completed =>
      /\ (PreHas(SixMonths) /\ ~PreHas(Tier2) /\ ~Targets(Tier2))
            => (NowCount(Tier2) = 0 /\ ~LogHas({"INSERT"}, Tier2, {TRUE, FALSE}))
      /\ \A f \in DualFiles :
            (~PreHas(f) /\ ~Targets(f)) => NowCount(f) = 0

C13_Witness ==
    /\ IsChangeTier /\ Succeeded
    /\ last.file = ThreeMonths /\ last.new = Tier1
    /\ PreHas(ThreeMonths) /\ PreHas(SixMonths) /\ ~PreHas(Tier2)
    /\ NowCount(SixMonths) = 1

(* the rows at tier f are the rows the table held there before the call,
   each with the updates of the call laid over it *)
UpdatedInPlace(f) ==
    RowsAt(table, last.vn, f)
      = [i \in 1..PreCount(f) |-> Rewritten(RowsAt(last.pre, last.vn, f)[i], f)]

Untouched(f) == RowsAt(table, last.vn, f) = RowsAt(last.pre, last.vn, f)

(* C14: when update_vendor is called on Tier2 or 6Months with non-empty
   updates and returns success, then if both rows exist every field of the
   updates has the new value in both rows, whichever tier was named; if
   only one of the two exists, only the named row is updated. *)
C14_UpdateFullSync ==
    (last.op = "update_vendor" /\ Succeeded
        /\ last.file \in DualFiles /\ DOMAIN last.upd # {})
    => IF PreHas(Tier2) /\ PreHas(SixMonths)
       THEN /\ UpdatedInPlace(Tier2)
            /\ UpdatedInPlace(SixMonths)
            /\ \A f \in Tiers \ DualFiles : Untouched(f)
       ELSE /\ UpdatedInPlace(last.file)
            /\ \A f \in Tiers \ {last.file} : Untouched(f)

C14_Witness ==
    /\ last.op = "update_vendor" /\ Succeeded
    /\ last.file = SixMonths
    /\ last.upd = (NameField :> "Acme" @@ ContactsField :> "bad")
    /\ PreCount(Tier2) = 1 /\ PreCount(SixMonths) = 1
    /\ PreRow(Tier2)[ContactsField] = "a@x.com"

(* C15: update_vendor with an empty set of field updates returns success
   and changes no row, for every vendor and tier, whether or not a row
   exists at the key. *)
C15_EmptyUpdateNoOp ==
    (last.op = "update_vendor" /\ DOMAIN last.upd = {})
    => (Succeeded /\ table = last.pre)

C15_Witness ==
    /\ last.op = "update_vendor" /\ DOMAIN last.upd = {}
    /\ last.file = Tier2 /\ ~PreHas(Tier2) /\ PreHas(SixMonths)
    /\ Succeeded

(* ---------------- deduplication on larger tables ---------------------- *)

MaxDedupRows == 4   \* rows of the initial table when only Deduplicate runs

(* any table of at most MaxDedupRows rows: two tier values can be
   duplicated at the same time *)
DedupTables ==
    {t \in UNION {[1..n -> RowKinds] : n \in 0..MaxDedupRows} : Canon(t) = t}

InitDedup ==
    /\ table \in DedupTables
    /\ last = NoLast
    /\ session = NoSession

NextDedup == Deduplicate

SpecDedup == InitDedup /\ [][NextDedup]_vars

(* C16: after one successful _check_and_fix_duplicates, for each tier value
   that had more than one row of the vendor exactly one row remains, also
   when two or more tier values are duplicated at the same time, and the
   tier values that had a single row are untouched. *)
C16_DeduplicateEveryGroup ==
    (last.op = "deduplicate" /\ Succeeded)
    => \A f \in Tiers :
          /\ PreCount(f) > 1 => NowCount(f) = 1
          /\ PreCount(f) <= 1 => Untouched(f)

(* the first non-empty value of field f in a sequence of rows, null when
   every row has it empty *)
FirstNonEmpty(rows, f) ==
    LET full == {i \in 1..Len(rows) : ~Emptyish(rows[i][f])}
    IN  IF full = {} THEN None
        ELSE rows[CHOOSE i \in full : \A j \in full : i <= j][f]

(* the call collapsed the rows the vendor had at tier f into one *)
Collapsed(f) == PreCount(f) > 1 /\ NowCount(f) = 1

(* C17: the one row that survives the deduplication of a tier group holds,
   for each non-key field, the first non-empty value among the rows of the
   group in read order, and null only if every row of the group has the
   field empty. *)
C17_DeduplicateMergeValues ==
    (last.op = "deduplicate" /\ Succeeded)
    => \A g \in Tiers :
          Collapsed(g) =>
             \A r \in NowRows(g) : \A f \in Fields :
                r[f] = FirstNonEmpty(RowsAt(last.pre, last.vn, g), f)

C17_Witness ==
    /\ last.op = "deduplicate" /\ Succeeded
    /\ Collapsed(Tier2)
    /\ RowsAt(last.pre, last.vn, Tier2)[1][ContactsField] = None
    /\ RowsAt(last.pre, last.vn, Tier2)[2][ContactsField] = "a@x.com"
    /\ \A r \in NowRows(Tier2) : r[ContactsField] = "a@x.com"

(* ------------- deduplication beside another session ------------------- *)

(* the statement after which the other session writes was issued *)
IssuedDml(c) ==
    /\ c.sa <= c.n
    /\ c.log[c.sa].k \in {"INSERT", "UPDATE", "DELETE"}

(* _check_and_fix_duplicates while another session of the shared table
   inserts one row right after one of its statements *)
DeduplicateShared ==
    /\ last.op = "none"
    /\ \E vn \in Vendors, sa \in 1..MaxFail, srow \in RowKinds :
          \E c \in {check_and_fix_duplicates(CtxShared(table, sa, srow), vn)} :
              /\ IssuedDml(c)
              /\ table' = c.t
              /\ session' = session
              /\ last' = Done("deduplicate", vn, "", "", EmptyDict, c)

NextShared == DeduplicateShared

SpecShared == Init /\ [][NextShared]_vars

(* storage call i of the call is a read-back: the count that follows a
   delete, the count that follows an insert *)
IsReadBackAfter(i, kind) ==
    /\ i > 1
    /\ last.log[i].k = "COUNT"
    /\ last.log[i - 1].k = kind
    /\ last.log[i - 1].file = last.log[i].file

(* C18: if the read-back after the delete of _check_and_fix_duplicates
   finds rows still at the tier key, the call returns failure and does not
   re-insert; if the read-back after the re-insert finds a count other than
   one, the call returns failure. *)
C18_DeduplicateVerification ==
    last.op = "deduplicate" =>
      \A i \in 1..Len(last.log) :
         /\ (IsReadBackAfter(i, "DELETE") /\ last.log[i].cnt > 0)
               => /\ last.ret = "False"
                  /\ \A j \in 1..Len(last.log) : j > i => last.log[j].k # "INSERT"
         /\ (IsReadBackAfter(i, "INSERT") /\ last.log[i].cnt # 1)
               => last.ret = "False"

(* ------------------- deduplication run twice in a row ----------------- *)

(* _check_and_fix_duplicates called again right after a call of it that
   returned True, on the table that call left *)
DeduplicateAgain ==
    /\ last.op = "deduplicate"
    /\ last.ret = "True"
    /\ \E fa \in FailAts :
          \E c \in {check_and_fix_duplicates(Ctx(table, fa), last.vn)} :
              /\ Issued(c)
              /\ table' = c.t
              /\ session' = session
              /\ last' = Done("deduplicate_again", last.vn, "", "", EmptyDict, c)

NextTwice == Deduplicate \/ DeduplicateAgain

SpecTwice == InitDedup /\ [][NextTwice]_vars

IsDeduplicate == last.op \in {"deduplicate", "deduplicate_again"}

(* no tier value of vn is held by more than one row of t *)
NoDuplicatedTier(t, vn) == \A f \in Tiers : CountAt(t, vn, f) <= 1

(* C19, first half: _check_and_fix_duplicates on a vendor with no
   duplicated tier value issues no delete and no insert and leaves the
   table as it was. *)
C19_NoDuplicateNoWrite ==
    (IsDeduplicate /\ NoDuplicatedTier(last.pre, last.vn))
        => /\ ~ \E i \in 1..Len(last.log) : last.log[i].k \in {"DELETE", "INSERT"}
           /\ table = last.pre

(* C19, second half: a successful second run right after a successful run
   changes nothing, so two runs leave the table one run leaves. *)
C19_SecondRunChangesNothing ==
    (last.op = "deduplicate_again" /\ last.ret = "True") => table = last.pre

(* C19: _check_and_fix_duplicates on a vendor with no duplicated tier value
   issues no delete or insert and leaves every row unchanged; hence run
   twice in a row it yields the same table as run once. *)
C19_DeduplicateIdempotent ==
    C19_NoDuplicateNoWrite /\ C19_SecondRunChangesNothing

(* ---------------------- resync run twice in a row --------------------- *)

(* _check_and_fix_unsynced_dual called again right after a call of it that
   returned True; the record keeps the table before the first call and the
   statements of both calls *)
ResyncAgain ==
    /\ last.op = "resync"
    /\ last.ret = "True"
    /\ \E fa \in FailAts :
          \E c \in {check_and_fix_unsynced_dual(Ctx(table, fa), last.vn)} :
              /\ Issued(c)
              /\ table' = c.t
              /\ session' = session
              /\ last' = [last EXCEPT !.op = "resync_again", !.fa = c.fa,
                                      !.ret = c.ret, !.log = @ \o c.log]

NextResync == ResyncDualPair \/ ResyncAgain

SpecResync == Init /\ [][NextResync]_vars

IsResync == last.op \in {"resync", "resync_again"}

(* every storage call of the record was answered *)
NoneRaised == \A i \in 1..Len(last.log) : last.log[i].ok

(* C20: when the vendor lacks a Tier2 row or lacks a 6Months row, or its
   Tier2 and 6Months rows agree on every non-tier field, and storage answers
   its read, _check_and_fix_unsynced_dual returns True and issues no update;
   run twice in a row on a synced pair it changes no row. *)
C20_ResyncNoOp ==
    (/\ IsResync
     /\ NoneRaised
     /\ \/ ~PreHas(Tier2)
        \/ ~PreHas(SixMonths)
        \/ Synced(last.pre, last.vn))
        => /\ last.ret = "True"
           /\ ~ \E i \in 1..Len(last.log) : last.log[i].k \in WriteKinds
           /\ table = last.pre

(* two runs in a row on a pair that holds the same address in both rows *)
C20_Witness ==
    /\ last.op = "resync_again"
    /\ NoneRaised
    /\ last.ret = "True"
    /\ PreHas(Tier2) /\ PreHas(SixMonths)
    /\ Synced(last.pre, last.vn)
    /\ \E r \in PreRows(Tier2) : r[ContactsField] = "a@x.com"
    /\ Len(last.log) = 2

(* ------------------- resync of a pair that differs -------------------- *)

(* the rows of a pair whose name and contacts vary: a missing value, a
   valid address, an address with an upper-case domain, an invalid address *)
PairRows(file) ==
    {Row(vn, file, nm, ct) : vn \in Vendors, nm \in {None, "Acme"},
                             ct \in {None, "a@x.com", "A@X.COM", "bad"}}

(* one Tier2 row and one 6Months row of the vendor *)
InitPair ==
    /\ table \in {Canon(<<t2, sm>>) : t2 \in PairRows(Tier2), sm \in PairRows(SixMonths)}
    /\ last = NoLast
    /\ session = NoSession

NextPair == ResyncDualPair

SpecPair == InitPair /\ [][NextPair]_vars

(* the tie-break: the non-empty value of the two, the Tier2 value when both
   are non-empty, null when both are empty *)
TieBreak(tier2_value, sixmonths_value) ==
    IF ~Emptyish(tier2_value) THEN tier2_value
    ELSE IF ~Emptyish(sixmonths_value) THEN sixmonths_value
    ELSE None

(* what the email normalizer leaves of the modelled strings: the domain in
   lower case, an invalid address dropped, nothing left read as null *)
NormalizedEmail(v) ==
    CASE v = "a@x.com" -> "a@x.com"
      [] v = "A@X.COM" -> "A@x.com"
      [] OTHER -> None

(* a successful resync of a pair that differed on some field *)
ResyncedDiffering(t2, sm) ==
    /\ last.op = "resync"
    /\ last.ret = "True"
    /\ PreRows(Tier2) = {t2}
    /\ PreRows(SixMonths) = {sm}
    /\ PreCount(Tier2) = 1
    /\ PreCount(SixMonths) = 1
    /\ \E f \in Fields : t2[f] # sm[f]

(* C21 as stated: after a resync of a pair that differed, both rows hold in
   every field the tie-break value of the two rows' values, and a field on
   which they agreed holds the value it had. *)
C21_TieBreakAsStated ==
    \A t2 \in PreRows(Tier2), sm \in PreRows(SixMonths) :
        ResyncedDiffering(t2, sm)
            => \A r \in NowRows(Tier2) \cup NowRows(SixMonths) :
                  \A f \in Fields : r[f] = TieBreak(t2[f], sm[f])

(* C21, amended: after a resync of a pair that differed, both rows hold in
   every field the tie-break value of the two rows' values, passed through
   the email normalizer when the field is an email-list field; this holds
   for the fields on which they agreed too. *)
C21_TieBreakNormalized ==
    \A t2 \in PreRows(Tier2), sm \in PreRows(SixMonths) :
        ResyncedDiffering(t2, sm)
            => \A r \in NowRows(Tier2) \cup NowRows(SixMonths) :
                  \A f \in Fields :
                     r[f] = IF f \in email_fields
                            THEN NormalizedEmail(TieBreak(t2[f], sm[f]))
                            ELSE TieBreak(t2[f], sm[f])

(* a pair resynced with both contacts non-empty and different, and with the
   name held by the 6Months row only *)
C21_Witness ==
    \E t2 \in PreRows(Tier2), sm \in PreRows(SixMonths) :
        /\ ResyncedDiffering(t2, sm)
        /\ t2[ContactsField] = "A@X.COM" /\ sm[ContactsField] = "a@x.com"
        /\ t2[NameField] = None /\ sm[NameField] = "Acme"
        /\ NowCount(Tier2) = 1 /\ NowCount(SixMonths) = 1
        /\ \A r \in NowRows(Tier2) \cup NowRows(SixMonths) :
              r[ContactsField] = "A@x.com" /\ r[NameField] = "Acme"

(* -------------------------- storage failures -------------------------- *)

(* some storage call of the recorded call raised *)
SomeRaised == \E i \in 1..Len(last.log) : ~last.log[i].ok

(* C22: whenever a storage call made during change_vendor_tier,
   update_vendor, _check_and_fix_duplicates or _check_and_fix_unsynced_dual
   raises, the operation returns False: it neither returns True nor lets
   the exception escape. *)
C22_StorageFailureSurfaces ==
    (/\ last.op \in {"change_vendor_tier", "update_vendor", "deduplicate", "resync"}
     /\ SomeRaised)
        => last.ret = "False"

(* C22 without the read that change_vendor_tier makes outside any handler:
   a raised storage call never ends in an escaped exception elsewhere *)
C22_NoEscapeElsewhere ==
    (last.op \in {"update_vendor", "deduplicate", "resync"} /\ SomeRaised)
        => last.ret = "False"

(* ------------------------ abort on a failed step ---------------------- *)

(* storage call i of the record is a delete, insert or update that failed *)
IsFailedWrite(i) == last.log[i].k \in WriteKinds /\ ~last.log[i].ok

(* storage call i of the record is a read-back that found a mismatch: rows
   left after a delete, no row after an insert or update *)
IsMismatch(i) ==
    /\ i > 1
    /\ last.log[i].k = "COUNT"
    /\ last.log[i].ok
    /\ last.log[i - 1].ok
    /\ \/ last.log[i - 1].k = "DELETE" /\ last.log[i].cnt > 0
       \/ last.log[i - 1].k \in {"INSERT", "UPDATE"} /\ last.log[i].cnt = 0

(* C23: in every path of change_vendor_tier, once a delete, insert or update
   fails or a read-back finds a mismatch, no further mutating statement is
   issued and the call returns False; the call returns True only if every
   sub-step it ran succeeded. *)
C23_AbortOnSubStepFailure ==
    IsChangeTier =>
      \A i \in 1..Len(last.log) :
         (IsFailedWrite(i) \/ IsMismatch(i))
            => /\ last.ret = "False"
               /\ \A j \in 1..Len(last.log) : j > i => last.log[j].k \notin WriteKinds

(* --------------------- a failed tier change retried ------------------- *)

(* a table the engine is meant to keep: one row per key, the pair in sync *)
InitRetry ==
    /\ table \in {t \in InitTables :
                     NoDuplicates(t) /\ \A vn \in Vendors : Synced(t, vn)}
    /\ last = NoLast
    /\ session = NoSession

(* the same change_vendor_tier call issued again, storage no longer failing,
   after the call returned False or raised having changed the table; the
   record keeps the table before the first call *)
RetryChangeTier ==
    /\ last.op \in {"change_vendor_tier", "retry"}
    /\ last.ret \in {"False", "Raise"}
    /\ last.op = "change_vendor_tier" => table # last.pre
    /\ \E c \in {change_vendor_tier(Ctx(table, 0), last.vn, last.file, last.new, last.upd)} :
           /\ table' = c.t
           /\ session' = session
           /\ last' = [last EXCEPT !.op = "retry", !.ret = c.ret, !.log = c.log]

NextRetry == ChangeTier \/ RetryChangeTier

SpecRetry == InitRetry /\ [][NextRetry]_vars

(* the table the call leaves when no storage call fails *)
Uninterrupted ==
    change_vendor_tier(Ctx(last.pre, 0), last.vn, last.file, last.new, last.upd).t

(* a retry failed and left the table as it found it: the same call on the
   same table fails the same way, so no later retry returns True *)
RetryStuck ==
    /\ last.op = "retry"
    /\ last.ret \in {"False", "Raise"}
    /\ change_vendor_tier(Ctx(table, 0), last.vn, last.file, last.new, last.upd).t = table

(* a retry never raises, and a retry that returns True leaves a table
   without duplicates, with the pair in sync, equal to the table the
   uninterrupted call leaves *)
RetryOutcome ==
    last.op = "retry"
        => /\ last.ret # "Raise"
           /\ last.ret = "True"
                => /\ NoDuplicates(table)
                   /\ Synced(table, last.vn)
                   /\ table = Uninterrupted

(* C24: when a change_vendor_tier call fails after some of its sub-steps
   were applied, issuing the same call again while storage no longer fails
   does not raise, does not get stuck failing, and returns True only in a
   table without duplicates, with the pair in sync, equal to the table an
   uninterrupted call would have left. *)
C24_RetryToConverge == RetryOutcome /\ ~RetryStuck

(* ---------------------- the table between steps ----------------------- *)

(* C25: starting from a table without duplicates, the table after each
   statement issued by change_vendor_tier, _check_and_fix_duplicates or
   insert_vendor holds no two rows with the same (vendor, tier) key. *)
C25_NoDuplicateBetweenSteps ==
    (/\ last.op \in {"change_vendor_tier", "deduplicate", "insert_vendor"}
     /\ NoDuplicates(last.pre))
        => \A i \in 1..Len(last.log) : ~last.log[i].dup

(* ------------------------ the order of the steps ---------------------- *)

(* storage call i of the record changed, or tried to change, the table *)
IsWrite(i) == last.log[i].k \in WriteKinds

(* no statement between calls d and w of the record is a write *)
NoWriteBetween(d, w) ==
    \A j \in 1..Len(last.log) : (d < j /\ j < w) => ~IsWrite(j)

(* C26: in change_vendor_tier between two different tiers, no row of the new
   tier is written before a delete of the original tier's row, and a delete
   of the original row that went through is followed, as the next write, by
   the insert or update of the new tier's row unless the call stops; in
   _check_and_fix_duplicates every insert of the merged row comes right
   after the delete of the duplicated rows of that tier. *)
C26_DeleteBeforeWrite ==
    /\ (IsChangeTier /\ last.file # last.new) =>
          \A d \in 1..Len(last.log) :
             IsDeleteOrig(d) =>
                /\ \A w \in 1..Len(last.log) : (w < d) => ~IsWriteNew(w)
                /\ (last.log[d].ok /\ last.ret = "True")
                      => \E w \in 1..Len(last.log) :
                            d < w /\ IsWriteNew(w) /\ NoWriteBetween(d, w)
    /\ last.op \in {"deduplicate", "change_vendor_tier"} =>
          \A w \in 1..Len(last.log) :
             (/\ last.log[w].k = "INSERT"
              /\ \E d \in 1..Len(last.log) :
                    last.log[d].k = "DELETE" /\ last.log[d].file = last.log[w].file)
                => \E d \in 1..Len(last.log) :
                      /\ d < w
                      /\ last.log[d].k = "DELETE"
                      /\ last.log[d].file = last.log[w].file
                      /\ last.log[d].ok
                      /\ NoWriteBetween(d, w)

(* --------------------------- vendor creation -------------------------- *)

(* the number of INSERT statements of the record that went through *)
InsertsDone == Cardinality({i \in 1..Len(last.log) :
                               last.log[i].k = "INSERT" /\ last.log[i].ok})

(* the table holds, at the key (last.vn, file), one row more than before the
   call, and a row there holds the submitted values in every non-tier field *)
Created(file) ==
    /\ NowCount(file) = PreCount(file) + 1
    /\ \E r \in NowRows(file) :
          \A f \in Fields : r[f] = (IF Emptyish(last.upd[f]) THEN None ELSE last.upd[f])

(* C27: a successful insert_vendor with tier Tier2 inserts exactly one Tier2
   row and one 6Months row holding the same, submitted, non-tier fields; with
   any other tier it inserts exactly one row, at that tier; insert_vendor
   returns True only if every row it was meant to create is there. *)
C27_VendorCreation ==
    (last.op = "insert_vendor" /\ last.ret = "True")
        => IF last.file = Tier2
           THEN /\ Created(Tier2) /\ Created(SixMonths)
                /\ InsertsDone = 2
                /\ Len(table) = Len(last.pre) + 2
           ELSE /\ Created(last.file)
                /\ InsertsDone = 1
                /\ Len(table) = Len(last.pre) + 1

(* a new vendor created at Tier2 with an address, in a table that held no
   row of the pair *)
C27_Witness ==
    /\ last.op = "insert_vendor" /\ last.ret = "True"
    /\ last.file = Tier2
    /\ ~PreHas(Tier2) /\ ~PreHas(SixMonths)
    /\ last.upd[ContactsField] = "a@x.com"
    /\ NowCount(Tier2) = 1 /\ NowCount(SixMonths) = 1

(* ------------------------ the forms of the UI -------------------------- *)

MaxFormRows == 2    \* rows of the table behind the forms

(* str(value) *)
PyStr(v) == IF v = None THEN "None" ELSE v

(* EmailValidator.validate_email_list(...).is_valid on the modelled strings *)
email_list_is_valid(v) ==
    v \in {"", "a@x.com", "A@X.COM", "b@x.com;a@x.com", "a@x.com;b@x.com"}

(* a vendor number of fewer than three characters *)
ShortNumber == "12"

(* a variant that accepts any address; C28 tells it from
   validate_vendor_data *)
validate_vendor_data_NoEmailCheck(data) ==
    \A f \in DOMAIN data : (Truthy(data[f]) /\ f = VN) => data[f] # ShortNumber

(* VendorProcessor.validate_vendor_data(...).is_valid: empty values are
   skipped, e-mail lists must hold valid addresses only, the vendor number
   must have three characters *)
validate_vendor_data(data) ==
    \A f \in DOMAIN data :
        Truthy(data[f]) =>
            /\ f \in email_fields => email_list_is_valid(data[f])
            /\ f = VN => data[f] # ShortNumber

(* VendorProcessor.calculate_changes: the fields of the form whose value
   differs from the stored one, e-mail lists compared once normalized, the
   others as str() of the value *)
calculate_changes(original, updated) ==
    LET orig(f) == IF f \in DOMAIN original THEN original[f] ELSE ""
        changed == {f \in DOMAIN updated :
                       IF f \in email_fields
                       THEN validate_email_list(PyStr(orig(f)))
                               # validate_email_list(PyStr(updated[f]))
                       ELSE PyStr(orig(f)) # PyStr(updated[f])}
    IN  [f \in changed |-> IF f \in email_fields
                           THEN validate_email_list(PyStr(updated[f]))
                           ELSE PyStr(updated[f])]

(* what a handler of the UI leaves: the storage context, the session state
   and the message it shows *)
Shown(c, s, msg) == [c |-> Return(c, msg), s |-> s]

(* a variant that writes the changes as soon as they are saved; C35 tells it
   from save_vendor_changes *)
save_vendor_changes_Writing(c, s, original_vendor, updated_data) ==
    [c |-> update_vendor(c, original_vendor[VN], original_vendor[FILE],
                         calculate_changes(original_vendor, updated_data)),
     s |-> s]

(* save_vendor_changes of streamlit_app.py *)
save_vendor_changes(c, s, original_vendor, updated_data) ==
    LET original_file == original_vendor[FILE]
        new_file == IF FILE \in DOMAIN updated_data THEN updated_data[FILE]
                    ELSE original_file
        file_changing == original_file # new_file
        changes0 == calculate_changes(original_vendor, updated_data)
        changes == IF file_changing /\ FILE \notin DOMAIN changes0
                   THEN DictUpdate(changes0, [k \in {FILE} |-> new_file])
                   ELSE changes0
        vn == original_vendor[VN]
        leaving == original_file \in DualFiles /\ new_file \notin DualFiles
        joining == original_file \notin DualFiles /\ new_file = Tier2
        swapping == original_file \in DualFiles /\ new_file \in DualFiles
        reads == file_changing /\ (leaving \/ (~joining /\ swapping))
        c1 == IF reads THEN Query(c, "SELECT", "all", 0) ELSE c
        both == Exists(c.t, vn, Tier2) /\ Exists(c.t, vn, SixMonths)
        warning == CASE leaving -> ~Raises(c) /\ both
                     [] joining -> TRUE
                     [] swapping -> ~Raises(c)
                     [] OTHER -> FALSE
        recorded == [s EXCEPT !.pending_changes = changes,
                              !.original_vendor = original_vendor,
                              !.file_changing = file_changing]
    IN  IF new_file = Tier1 /\ original_file # Tier1
        THEN Shown(c, s, "tier1_blocked")
        ELSE IF ~validate_vendor_data(updated_data)
        THEN Shown(c, s, "validation_error")
        ELSE IF changes = EmptyDict
        THEN Shown(c, s, "no_changes")
        ELSE IF file_changing /\ warning
        THEN Shown(c1, [recorded EXCEPT !.tier_change_state = "warning",
                                        !.tier_change_warning = "warning_message"],
                   "warning")
        ELSE Shown(c1, recorded, "summary")

(* save_new_vendor of streamlit_app.py *)
save_new_vendor(c, s, vendor_data, file_value) ==
    LET required_fields == {VN, NameField, ContactsField}
        missing_fields == {f \in required_fields :
                              f \notin DOMAIN vendor_data \/ ~Truthy(vendor_data[f])}
        i == insert_vendor(c, vendor_data)
    IN  IF file_value = Tier1 THEN Shown(c, s, "tier1_blocked")
        ELSE IF ~validate_vendor_data(vendor_data) THEN Shown(c, s, "validation_error")
        ELSE IF missing_fields # {} THEN Shown(c, s, "missing_fields")
        ELSE IF i.ret = "True" THEN Shown(i, s, "created")
        ELSE Shown(i, s, "failed")

(* what the forms let a user type *)
FormNames == {"", "Acme"}

FormContacts == {"", "a@x.com", "bad"}

FormData(file, nm, ct) ==
    [k \in {FILE, NameField, ContactsField} |->
        CASE k = FILE -> file [] k = NameField -> nm [] OTHER -> ct]

FormTables == {t \in InitTables : Len(t) <= MaxFormRows}

(* a session that holds changes saved earlier and not yet confirmed *)
EarlierSession(row) ==
    [NoSession EXCEPT !.pending_changes = FailUpdate, !.original_vendor = row]

InitForms ==
    /\ table \in FormTables
    /\ last = NoLast
    /\ session \in {NoSession} \cup {EarlierSession(table[i]) : i \in 1..Len(table)}

(* "Save Changes" of the edit form of show_edit_screen on a row of the
   table: a 6Months row of a vendor that has a Tier2 row cannot select
   Tier2 (the selection falls back to the current tier), then
   save_vendor_changes *)
SubmitEdit ==
    /\ last.op = "none"
    /\ \E i \in 1..Len(table), file \in Tiers, nm \in FormNames,
          ct \in FormContacts, fa \in FailAts :
          LET vendor == table[i]
              current_file == vendor[FILE]
              c0 == Ctx(table, fa)
              c1 == IF current_file = SixMonths
                    THEN Query(c0, "SELECT", "all", 0) ELSE c0
              disable_tier2 == /\ current_file = SixMonths
                               /\ ~Raises(c0)
                               /\ Exists(table, vendor[VN], Tier2)
              updated_file == IF disable_tier2 /\ file = Tier2
                              THEN current_file ELSE file
              updated_data == FormData(updated_file, nm, ct)
          IN  \E u \in {save_vendor_changes(c1, session, vendor, updated_data)} :
              /\ Issued(u.c)
              /\ table' = u.c.t
              /\ session' = u.s
              /\ last' = Done("save_vendor_changes", vendor[VN], current_file,
                              updated_file, updated_data, u.c)

(* "Create Vendor" of the new-entry form of show_new_entry_screen: a
   selection of Tier1 is replaced by Tier2 before the data is built, then
   save_new_vendor *)
SubmitNewVendor ==
    /\ last.op = "none"
    /\ \E vendor_number \in Vendors \cup {ShortNumber}, selected \in Tiers,
          nm \in FormNames, ct \in FormContacts, fa \in FailAts :
          LET file_value == IF selected = Tier1 THEN Tier2 ELSE selected
              new_vendor_data ==
                  DictUpdate([k \in {VN} |-> vendor_number], FormData(file_value, nm, ct))
          IN  \E u \in {save_new_vendor(Ctx(table, fa), session, new_vendor_data,
                                      file_value)} :
              /\ Issued(u.c)
              /\ table' = u.c.t
              /\ session' = u.s
              /\ last' = Done("save_new_vendor", vendor_number, selected,
                              file_value, new_vendor_data, u.c)

NextForms == SubmitEdit \/ SubmitNewVendor

SpecForms == InitForms /\ [][NextForms]_vars

(* the data submitted in a form fails validation: an address that is not
   well formed, a vendor number that is too short *)
FailsValidation(data) ==
    \/ ContactsField \in DOMAIN data /\ data[ContactsField] = "bad"
    \/ VN \in DOMAIN data /\ data[VN] = ShortNumber

IsForm == last.op \in {"save_vendor_changes", "save_new_vendor"}

(* C28: when the data submitted in the edit form or in the new-entry form
   fails validation, an error is shown, no statement that changes the table
   is issued, the table is as it was, and the session state records no
   pending change. *)
C28_ValidationBeforeMutation ==
    (IsForm /\ FailsValidation(last.upd))
        => /\ last.ret \in {"validation_error", "tier1_blocked"}
           /\ \A i \in 1..Len(last.log) : last.log[i].k \notin WriteKinds
           /\ table = last.pre
           /\ session = last.was

(* a malformed address submitted in the edit form while earlier changes
   wait for confirmation *)
C28_Witness ==
    /\ last.op = "save_vendor_changes"
    /\ last.upd[ContactsField] = "bad"
    /\ last.ret = "validation_error"
    /\ session.pending_changes = FailUpdate

(* --------------------- the pair after a change to Tier2 --------------- *)

(* C29: after change_vendor_tier with new tier Tier2 returns True, whatever
   the original tier and whichever rows of the pair existed before, the
   vendor has a Tier2 row and a 6Months row. *)
C29_Tier2AlwaysDual ==
    (IsChangeTier /\ last.new = Tier2 /\ Succeeded)
        => NowCount(Tier2) >= 1 /\ NowCount(SixMonths) >= 1

(* C29, amended: after change_vendor_tier from another tier to Tier2 returns
   True the vendor has a Tier2 row, and it has a 6Months row as well unless
   it held both rows before and the original tier is 6Months: that change
   deletes the 6Months row and leaves the Tier2 row only. *)
C29_Tier2DualUnlessSwap ==
    (IsChangeTier /\ last.new = Tier2 /\ last.file # Tier2 /\ Succeeded)
        => /\ NowCount(Tier2) >= 1
           /\ IF PreHas(Tier2) /\ PreHas(SixMonths) /\ last.file = SixMonths
              THEN NowCount(SixMonths) = 0
              ELSE NowCount(SixMonths) >= 1

(* a 6Months row on its own changed to Tier2 *)
C29_Witness ==
    /\ IsChangeTier /\ last.new = Tier2 /\ last.file = SixMonths /\ Succeeded
    /\ PreCount(SixMonths) = 1 /\ ~PreHas(Tier2)
    /\ NowCount(Tier2) = 1 /\ NowCount(SixMonths) = 1

(* C30: when change_vendor_tier to Tier2 takes the creation path on a vendor
   that has one Tier2 row and no 6Months row, the original tier being Tier2
   or another tier the vendor has a row at, and returns True, the vendor
   ends with exactly one Tier2 row and exactly one 6Months row. *)
C30_CreationKeepsKeysUnique ==
    (/\ IsChangeTier /\ last.new = Tier2 /\ Succeeded
     /\ PreCount(Tier2) = 1 /\ ~PreHas(SixMonths)
     /\ PreHas(last.file))
        => NowCount(Tier2) = 1 /\ NowCount(SixMonths) = 1

(* ---------------------- a missing original row ------------------------ *)

(* C31: when the vendor has no row at the original tier, change_vendor_tier
   returns False and leaves the table as it was, for every new tier, also
   when a row exists at the new tier and when the other row of the pair
   exists (storage answering every call). *)
C31_MissingSourceFailsCleanly ==
    (IsChangeTier /\ NoneRaised /\ ~PreHas(last.file))
        => last.ret = "False" /\ table = last.pre

(* --------------------------- another vendor --------------------------- *)

(* a vendor the calls are never made for *)
OtherVendor == "2002"

MaxOwnRows == 2

(* the rows the other vendor holds: a duplicated Tier2 row and a 6Months row
   that disagrees with it, or one 3Months row *)
OtherTables ==
    {<<Row(OtherVendor, Tier2, None, "a@x.com"), Row(OtherVendor, Tier2, None, None),
       Row(OtherVendor, SixMonths, None, "bad")>>,
     <<Row(OtherVendor, ThreeMonths, None, None)>>}

InitIsolation ==
    /\ \E own \in {t \in InitTables : Len(t) <= MaxOwnRows}, other \in OtherTables :
           table = Canon(own \o other)
    /\ last = NoLast
    /\ session = NoSession

SpecIsolation == InitIsolation /\ [][Next]_vars

OtherRows(t) == SelectSeq(t, LAMBDA r : r[VN] = OtherVendor)

(* C32: every engine operation invoked for a vendor (insert_vendor,
   update_vendor, change_vendor_tier, _check_and_fix_duplicates,
   _check_and_fix_unsynced_dual) leaves the rows of every other vendor as
   they were, whether it returns True, returns False or raises. *)
C32_VendorIsolation ==
    Completed => /\ last.vn # OtherVendor
                 /\ OtherRows(table) = OtherRows(last.pre)

(* a call that changed the table while the other vendor held a duplicated,
   unsynced pair *)
C32_Witness ==
    /\ Completed /\ table # last.pre /\ Len(OtherRows(last.pre)) = 3
    /\ last.op \in {"change_vendor_tier", "deduplicate", "resync"}

(* ------------------------ update_vendor and keys ---------------------- *)

IsUpdate == last.op = "update_vendor"

(* row by row, t holds the keys u holds *)
SameKeys(t, u) ==
    /\ Len(t) = Len(u)
    /\ \A i \in 1..Len(t) : t[i][VN] = u[i][VN] /\ t[i][FILE] = u[i][FILE]

(* C33: update_vendor inserts no row, deletes no row and changes no row's
   tier or vendor number, also when the updates hold a FILE entry; called
   for a tier other than Tier2 and 6Months it changes no row but those at
   the key it was called for. *)
C33_UpdateKeepsKeys ==
    IsUpdate =>
        /\ SameKeys(table, last.pre)
        /\ last.file \notin DualFiles =>
               \A i \in 1..Len(table) :
                   ~HasKey(last.pre[i], last.vn, last.file) => table[i] = last.pre[i]

(* an update that rewrote a row outside the pair while the vendor held
   another row *)
C33_Witness ==
    /\ IsUpdate /\ Succeeded /\ last.file \notin DualFiles
    /\ table # last.pre
    /\ \E f \in Tiers \ {last.file} : PreHas(f)

(* ---------------------- Tier1 in the new-vendor form ------------------ *)

(* C34: when Tier1 is selected in the new-vendor form and the form is
   submitted, no row of any tier is inserted for the vendor and the
   submission is answered with the authorization error. *)
C34_NewEntryTier1Blocked ==
    (last.op = "save_new_vendor" /\ last.file = Tier1)
        => /\ last.ret = "tier1_blocked"
           /\ \A f \in Tiers : CountAt(table, last.vn, f) = CountAt(last.pre, last.vn, f)

(* ------------------------- the screens of the app --------------------- *)

MaxUIRows == 2      \* rows of the table when the app starts
MaxUITable == 3     \* rows of the table beyond which no vendor is created
MaxUIFail == 1      \* the storage calls of a handler one of which may raise

UIFailAts == 0..MaxUIFail

(* the vendor numbers typed in the search box *)
SearchValues == Vendors \cup {OtherVendor}

(* VendorSearchResult: the rows found *)
SearchResult(rows) == [k \in {"vendors"} |-> rows]

(* a step of the app that calls no storage *)
Stay(t, msg) == Return(Ctx(t, 0), msg)

(* perform_search by vendor number: an empty result stays on the search
   screen, rows found lead to the results screen, a failed search changes
   nothing *)
perform_search(c, s, search_value) ==
    LET c1 == Query(c, "SELECT", "search", 0)
        vendors == Combinations(c.t, search_value)
        stored == [s EXCEPT !.search_performed = TRUE,
                            !.search_results = SearchResult(vendors),
                            !.search_value = search_value]
    IN  IF Raises(c) THEN Shown(c1, s, "search_failed")
        ELSE IF Len(vendors) = 0 THEN Shown(c1, stored, "not_found")
        ELSE Shown(c1, [stored EXCEPT !.current_mode = "results"], "found")

(* the "Edit" buttons of the results screen: the row is read again and the
   row of the results is kept when the read fails or finds nothing *)
select_vendor(c, s, vendor) ==
    LET c1 == Query(c, "GET", vendor[FILE], CountAt(c.t, vendor[VN], vendor[FILE]))
        found == RowsAt(c.t, vendor[VN], vendor[FILE])
        fresh == IF Raises(c) \/ Len(found) = 0 THEN vendor ELSE First(found)
    IN  Shown(c1, [s EXCEPT !.selected_vendor = fresh, !.current_mode = "edit"], "edit")

(* confirm_vendor_changes of streamlit_app.py: the pending changes are
   applied to the row kept in original_vendor; on success the receipt is
   stored and the mode becomes 'receipt', on failure only the warning state
   is cleared *)
confirm_vendor_changes(c, s) ==
    LET changes == s.pending_changes
        original_vendor == s.original_vendor
        vendor_number == original_vendor[VN]
        original_file == original_vendor[FILE]
        new_file == IF FILE \in DOMAIN changes THEN changes[FILE] ELSE original_file
        tier == s.file_changing /\ original_file # new_file
        w == IF tier
             THEN change_vendor_tier(c, vendor_number, original_file, new_file, changes)
             ELSE update_vendor(c, vendor_number, original_file, changes)
        fetch_file == IF tier THEN new_file ELSE original_file
        r == Query(w, "GET", fetch_file, CountAt(w.t, vendor_number, fetch_file))
        receipt_data == [k \in {"vendor_number", "original_file", "new_file"} |->
                            CASE k = "vendor_number" -> vendor_number
                              [] k = "original_file" -> original_file
                              [] OTHER -> IF s.file_changing THEN new_file
                                          ELSE original_file]
        failed == [s EXCEPT !.tier_change_state = None, !.tier_change_warning = None]
    IN  IF original_vendor = EmptyDict THEN Shown(c, failed, "failed")
        ELSE IF w.ret = "True"
        THEN Shown(r, [s EXCEPT !.pending_changes = EmptyDict,
                                !.original_vendor = EmptyDict,
                                !.tier_change_state = None,
                                !.tier_change_warning = None,
                                !.tier_change_receipt = receipt_data,
                                !.current_mode = "receipt"], "receipt")
        ELSE Shown(w, failed, "failed")

(* the tables the app starts on: rows without a name and without contacts *)
UITables ==
    {t \in InitTables :
        /\ Len(t) <= MaxUIRows
        /\ \A i \in 1..Len(t) : t[i][ContactsField] = None}

(* what a user types in the forms of the screens *)
UIFormNames == {"Acme"}

UIFormContacts == {"a@x.com", "bad"}

InitUI ==
    /\ table \in UITables
    /\ last = NoLast
    /\ session = NoSession

(* one step of the app: what a handler left *)
Step(op, vn, file, new, upd, shown) ==
    \E u \in {shown} :
    /\ Issued(u.c)
    /\ table' = u.c.t
    /\ session' = u.s
    /\ last' = Done(op, vn, file, new, upd, u.c)

(* a button that only changes the session state *)
Press(op, s) == Step(op, "", "", "", EmptyDict, Shown(Stay(table, op), s, op))

(* "Search" of show_search_screen *)
Search ==
    /\ session.current_mode = "search"
    /\ \E search_value \in SearchValues, fa \in UIFailAts :
          Step("perform_search", search_value, "", "", EmptyDict,
               perform_search(Ctx(table, fa), session, search_value))

(* "Create New Entry" of show_search_screen, offered after a search by
   vendor number that found nothing *)
CreateNewEntry ==
    /\ session.current_mode = "search"
    /\ session.search_performed
    /\ session.search_results # EmptyDict
    /\ Len(session.search_results["vendors"]) = 0
    /\ \E search_value \in SearchValues :
          Press("create_new_entry",
                [session EXCEPT !.search_value = search_value,
                                !.current_mode = "new",
                                !.search_performed = FALSE,
                                !.search_results = EmptyDict])

(* "Back to Search" of show_results_screen *)
ResultsBack ==
    /\ session.current_mode = "results"
    /\ Press("results_back",
             [session EXCEPT !.current_mode = "search", !.search_results = EmptyDict])

(* an "Edit" button of show_results_screen *)
SelectVendor ==
    /\ session.current_mode = "results"
    /\ session.search_results # EmptyDict
    /\ \E i \in 1..Len(session.search_results["vendors"]), fa \in UIFailAts :
          LET vendor == session.search_results["vendors"][i]
          IN  Step("select_vendor", vendor[VN], vendor[FILE], "", EmptyDict,
                   select_vendor(Ctx(table, fa), session, vendor))

(* "Save Changes" of the form of show_edit_screen on the selected vendor *)
EditSave ==
    /\ session.current_mode = "edit"
    /\ \E file \in Tiers, nm \in UIFormNames, ct \in UIFormContacts, fa \in UIFailAts :
          LET vendor == session.selected_vendor
              current_file == vendor[FILE]
              c0 == Ctx(table, fa)
              c1 == IF current_file = SixMonths
                    THEN Query(c0, "SELECT", "all", 0) ELSE c0
              disable_tier2 == /\ current_file = SixMonths
                               /\ ~Raises(c0)
                               /\ Exists(table, vendor[VN], Tier2)
              updated_file == IF disable_tier2 /\ file = Tier2
                              THEN current_file ELSE file
              updated_data == FormData(updated_file, nm, ct)
          IN  Step("save_vendor_changes", vendor[VN], current_file, updated_file,
                   updated_data,
                   save_vendor_changes(c1, session, vendor, updated_data))

(* "Back to Search" at the bottom of the form of show_edit_screen *)
EditBack ==
    /\ session.current_mode = "edit"
    /\ Press("edit_back",
             [session EXCEPT !.current_mode = "search",
                             !.search_results = EmptyDict,
                             !.selected_vendor = EmptyDict])

InWarning == session.current_mode = "edit" /\ session.tier_change_state = "warning"

(* "Back to Search" shown under the tier-change warning *)
WarningBack ==
    /\ InWarning
    /\ Press("warning_back",
             [session EXCEPT !.current_mode = "search",
                             !.search_results = EmptyDict,
                             !.selected_vendor = EmptyDict,
                             !.tier_change_state = None,
                             !.tier_change_warning = None,
                             !.pending_changes = EmptyDict])

Confirming(op, fa) ==
    LET ov == session.original_vendor
        ch == session.pending_changes
    IN  Step(op,
             IF ov = EmptyDict THEN "" ELSE ov[VN],
             IF ov = EmptyDict THEN "" ELSE ov[FILE],
             IF FILE \in DOMAIN ch THEN ch[FILE]
             ELSE IF ov = EmptyDict THEN "" ELSE ov[FILE],
             ch,
             confirm_vendor_changes(Ctx(table, fa), session))

(* "No, Cancel" of show_tier_change_warning *)
WarningNo ==
    /\ InWarning
    /\ Press("no_cancel",
             [session EXCEPT !.tier_change_state = None,
                             !.tier_change_warning = None,
                             !.pending_changes = EmptyDict,
                             !.original_vendor = EmptyDict])

(* the buttons under the form are shown when changes are pending and no
   warning is *)
OffersConfirm ==
    /\ session.current_mode = "edit"
    /\ session.tier_change_state # "warning"
    /\ session.pending_changes # EmptyDict

(* "Yes, Continue" of show_tier_change_warning and "Confirm Changes" of
   show_edit_screen: whichever the edit screen shows, it calls
   confirm_vendor_changes *)
Confirm ==
    /\ IF InWarning THEN TRUE ELSE OffersConfirm
    /\ \E fa \in UIFailAts :
          Confirming(IF InWarning THEN "yes_continue" ELSE "confirm_changes", fa)

(* "Cancel Changes" of show_edit_screen *)
CancelChanges ==
    /\ OffersConfirm
    /\ Press("cancel_changes",
             [session EXCEPT !.pending_changes = EmptyDict,
                             !.original_vendor = EmptyDict])

(* "Create Vendor" of show_new_entry_screen for the number searched *)
NewSubmit ==
    /\ session.current_mode = "new"
    /\ Len(table) + 2 <= MaxUITable
    /\ \E selected \in Tiers, nm \in UIFormNames, ct \in UIFormContacts, fa \in UIFailAts :
          LET vendor_number == session.search_value
              file_value == IF selected = Tier1 THEN Tier2 ELSE selected
              new_vendor_data ==
                  DictUpdate([k \in {VN} |-> vendor_number], FormData(file_value, nm, ct))
          IN  Step("save_new_vendor", vendor_number, selected, file_value,
                   new_vendor_data,
                   save_new_vendor(Ctx(table, fa), session, new_vendor_data, file_value))

(* "Back to Search" of show_new_entry_screen *)
NewBack ==
    /\ session.current_mode = "new"
    /\ Press("new_back",
             [session EXCEPT !.current_mode = "search",
                             !.search_results = EmptyDict,
                             !.selected_vendor = EmptyDict,
                             !.search_value = ""])

(* the receipt screen shows no button *)
NextUI ==
    \/ Search
    \/ CreateNewEntry
    \/ ResultsBack
    \/ SelectVendor
    \/ EditSave
    \/ EditBack
    \/ WarningBack
    \/ WarningNo
    \/ Confirm
    \/ CancelChanges
    \/ NewSubmit
    \/ NewBack

SpecUI == InitUI /\ [][NextUI]_vars

UIModes == {"search", "results", "edit", "new", "receipt"}

UITypeOK == session.current_mode \in UIModes

(* ---------------------- confirmation before writing ------------------- *)

IsConfirm == last.op \in {"confirm_changes", "yes_continue"}

(* the buttons of the results screen and of the edit screen *)
EditFlow ==
    {"select_vendor", "save_vendor_changes", "edit_back", "warning_back",
     "no_cancel", "cancel_changes", "confirm_changes", "yes_continue"}

(* the step issued a statement that writes, or left another table *)
IssuedWrite ==
    \/ \E i \in 1..Len(last.log) : last.log[i].k \in WriteKinds
    \/ table # last.pre

(* C35: in the edit flow a statement that writes is issued only by
   "Confirm Changes" or "Yes, Continue", pressed while the session holds the
   pending changes and the row a save recorded, and what is applied is those
   pending changes; "Save Changes", the cancel buttons and the back buttons
   never write. *)
C35_NoWriteWithoutConfirm ==
    (last.op \in EditFlow /\ IssuedWrite)
        => /\ IsConfirm
           /\ last.was.pending_changes # EmptyDict
           /\ last.was.original_vendor # EmptyDict
           /\ last.upd = last.was.pending_changes

(* a confirmation that changed the table *)
C35_Witness == IsConfirm /\ last.ret = "receipt" /\ table # last.pre

(* -------------------- whose changes are confirmed --------------------- *)

(* C36: whenever a confirm button is pressed, the pending changes were
   computed from the row selected on the edit screen and are applied to it;
   pending changes never outlive the edit screen of their row: while the
   session holds pending changes, the app is on the edit screen of the row
   they were recorded for. *)
C36_PendingChangesOfSelectedVendor ==
    /\ IsConfirm =>
           /\ last.was.original_vendor = last.was.selected_vendor
           /\ last.vn = last.was.selected_vendor[VN]
           /\ last.file = last.was.selected_vendor[FILE]
    /\ session.pending_changes # EmptyDict =>
           /\ session.current_mode = "edit"
           /\ session.original_vendor = session.selected_vendor

(* --------------------------- back to search --------------------------- *)

(* a press of a button of the screen shown that leaves the app on the
   search screen: the "Back to Search" buttons are the handlers that assign
   'search' to current_mode *)
ReturnToSearch ==
    /\ ResultsBack \/ EditBack \/ WarningBack \/ NewBack
    /\ session'.current_mode = "search"

(* C37: every mode of the app (search, results, edit with or without the
   tier warning, new, receipt) offers user actions that lead back to the
   search screen. Wherever a screen offers a way back at all, one press of
   its "Back to Search" button is that way, so the property is stated as:
   outside the search screen, such a press is possible. *)
C37_EveryScreenReturnsToSearch ==
    session.current_mode # "search" => ENABLED ReturnToSearch

(* --------------------------- session state ---------------------------- *)

(* C38: no session state the app reaches shows one of the five corruption
   patterns: pending changes without original_vendor, mode 'edit' without
   selected_vendor, mode 'receipt' without tier_change_receipt,
   tier_change_state 'warning' without tier_change_warning, file_changing
   set outside the modes 'edit' and 'new'. *)
C38_SessionNeverCorrupt ==
    /\ session.pending_changes # EmptyDict => session.original_vendor # EmptyDict
    /\ session.current_mode = "edit" => session.selected_vendor # EmptyDict
    /\ session.current_mode = "receipt" => session.tier_change_receipt # EmptyDict
    /\ session.tier_change_state = "warning" => session.tier_change_warning # None
    /\ session.file_changing => session.current_mode \in {"edit", "new"}

====
